---- MODULE Spec2Model ----
(***************************************************************************)
(* Model of PyOutputToolExampleEngine.py: the AyxPlugin controller and its *)
(* IncomingInterface record sink, which buffer the string values of the    *)
(* incoming records column by column and append them to a CSV file.        *)
(*                                                                         *)
(* Conventions.  A Python value that may be None is a sequence of length   *)
(* 0 (None) or 1 (the value).  A string that the code inspects character   *)
(* by character (the file path) is a sequence of one-character strings; a  *)
(* message text is the sequence of the pieces the code concatenates.  The  *)
(* file system maps each existing path to the sequence of CSV rows the     *)
(* file holds; csv.writer and open() belong to the Python library.         *)
(* open(path, 'a') of a str path is taken to succeed, open(None, 'a')      *)
(* raises TypeError.  An exception that leaves a callback aborts the       *)
(* workflow: no later callback runs.                                       *)
(***************************************************************************)
EXTENDS Integers, Sequences, FiniteSets, TLC

VARIABLES
    str_file_path,   \* AyxPlugin.str_file_path: None or the path
    single_input,    \* AyxPlugin.single_input exists (the sink was created)
    record_info_in,  \* IncomingInterface.record_info_in: None or the schema
    field_lists,     \* IncomingInterface.field_lists: one list per column
    counter,         \* IncomingInterface.counter
    fs,              \* the file system: path -> rows of the file
    events,          \* host messages and file appends, in program order
    progress,        \* what the last callback gave output_tool_progress
    ret,             \* what the last callback returned
    err,             \* the exception that left the last callback, or "none"
    received,        \* history: the records pushed to the sink so far
    lifecycle,       \* history: phase by the calls made so far
    nInit,           \* history: number of ii_init calls
    nDeviations,     \* history: sink calls made outside the lifecycle order
    configured,      \* history: pi_init has returned
    unflushed,       \* history: records pushed since the last file append
    lastCall         \* history: the callback the host called last

vars == <<str_file_path, single_input, record_info_in, field_lists, counter,
          fs, events, progress, ret, err, received, lifecycle, nInit,
          nDeviations, configured, unflushed, lastCall>>

(***************************************************************************)
(* Bounds of the exploration.                                              *)
(***************************************************************************)
\* The chunk mark of ii_push_record (1000000 in the source), scaled down.
ChunkSize == 3
\* Records the host pushes in one behaviour.
MaxPush == 6
\* Sink calls the host makes outside the order ii_init, ii_push_record*, ii_close.
MaxDeviations == 1

(***************************************************************************)
(* Python values.                                                          *)
(***************************************************************************)
None == << >>

Some(v) == <<v>>

IsNone(o) == o = << >>

Val(o) == o[1]

Rep(n, c) == [i \in 1..n |-> c]

(***************************************************************************)
(* Inputs of the host.                                                     *)
(***************************************************************************)
\* Paths the GUI can hand over.
ValidNewPath == <<"o", "u", "t">>

ExistingPath == <<"o", "l", "d">>

ExistingBadPath == <<"*", "/", "?">>

PathTexts ==
    { ValidNewPath, ExistingPath, ExistingBadPath,
      <<"<", "|", ">", "\"">>,
      Rep(259, "a"), Rep(260, "a"), Rep(259, "a") \o <<";">> }

\* Rows of a file that is on disk before the workflow runs.
OldContent == << <<"k">>, <<"0">> >>

InitialFiles == { ExistingPath, ExistingBadPath }

\* Record metadata: the field names, in order.
Schemas == { << >>, <<"a">>, <<"a", "b">> }

\* The k-th record of a stream, per field its string value or None.  The
\* records of a stream differ from one another and from the field names, so
\* that a lost, repeated or misplaced row shows in the file; every second
\* record has a None in its last field.
RecordsOf(schema, k) ==
    { [f \in 1..Len(schema) |->
          IF f = Len(schema) /\ k % 2 = 0 THEN None
          ELSE IF f = 1 THEN Some(ToString(k))
          ELSE Some("v")] }

\* Values of d_percent, in percent.
Percents == { 0, 100 }

\* Configuration XML: the raw text and what ElementTree makes of it.
XmlChild(tag, text) == [tag |-> tag, text |-> text]

XmlWithPath(p) ==
    [raw |-> <<"<Configuration><Other>1</Other><fileOutputPath>">> \o p
                \o <<"</fileOutputPath></Configuration>">>,
     wellFormed |-> TRUE,
     children |-> << XmlChild("Other", Some(<<"1">>)),
                     XmlChild("fileOutputPath", Some(p)) >>]

XmlPayloads ==
    { [raw |-> <<"<Configuration><fileOutputPath>">>,
       wellFormed |-> FALSE, children |-> << >>],
      [raw |-> <<"<Configuration/>">>,
       wellFormed |-> TRUE, children |-> << >>],
      [raw |-> <<"<Configuration><Other>1</Other></Configuration>">>,
       wellFormed |-> TRUE,
       children |-> << XmlChild("Other", Some(<<"1">>)) >>],
      [raw |-> <<"<Configuration><fileOutputPath/></Configuration>">>,
       wellFormed |-> TRUE,
       children |-> << XmlChild("fileOutputPath", None) >>] }
    \cup { XmlWithPath(p) : p \in PathTexts }

(***************************************************************************)
(* Host channel.                                                           *)
(***************************************************************************)
Message(type, text) == [kind |-> "message", type |-> type, text |-> text]

WriteEvent(path, rows) == [kind |-> "write", path |-> path, rows |-> rows]

xmsg(msg_string) == msg_string

(***************************************************************************)
(* Initial state: AyxPlugin.__init__ has run, no sink exists yet.           *)
(***************************************************************************)
Init ==
    /\ str_file_path = None
    /\ single_input = FALSE
    /\ record_info_in = None
    /\ field_lists = << >>
    /\ counter = 0
    /\ fs = [p \in InitialFiles |-> OldContent]
    /\ events = << >>
    /\ progress = None
    /\ ret = "None"
    /\ err = "none"
    /\ received = << >>
    /\ lifecycle = "uninitialized"
    /\ nInit = 0
    /\ nDeviations = 0
    /\ configured = FALSE
    /\ unflushed = 0
    /\ lastCall = "__init__"

(***************************************************************************)
(* Library calls.                                                          *)
(***************************************************************************)
\* ET.fromstring: the root's children, or None when the text is not XML
\* (the library raises ParseError).
ET_fromstring(str_xml) ==
    IF str_xml.wellFormed THEN Some(str_xml.children) ELSE None

\* Element.find: the first child with the tag, or None.
find(children, tag) ==
    LET hits == { i \in 1..Len(children) : children[i].tag = tag }
    IN  IF hits = {} THEN None
        ELSE Some(children[CHOOSE i \in hits : \A j \in hits : i <= j])

\* os.access(path, os.F_OK)
os_access(files, path) == path \in DOMAIN files

\* zip(*field_lists): the rows, as long as the shortest list.
zip(lists) ==
    IF Len(lists) = 0 THEN << >>
    ELSE LET n == CHOOSE m \in { Len(lists[i]) : i \in 1..Len(lists) } :
                      \A i \in 1..Len(lists) : m <= Len(lists[i])
         IN  [k \in 1..n |-> [f \in 1..Len(lists) |-> lists[f][k]]]

\* open(path, 'a') followed by writerows(rows): the file is created when it
\* is missing and the rows go to its end.
\* A slip of the mode ('w' for 'a'): every open truncates the file.
AppendRows_Truncate(files, path, rows) ==
    [p \in DOMAIN files \cup {path} |-> IF p = path THEN rows ELSE files[p]]

AppendRows(files, path, rows) ==
    [p \in DOMAIN files \cup {path} |->
        IF p = path
        THEN (IF path \in DOMAIN files THEN files[path] ELSE << >>) \o rows
        ELSE files[p]]

(***************************************************************************)
(* AyxPlugin.write_lists_to_csv                                            *)
(***************************************************************************)
\* for sublist in field_lists: del sublist[:]
ClearLists(lists) == [f \in 1..Len(lists) |-> << >>]

\* The outcome of the call: the exception, the files, the lists, the events.
write_lists_to_csv(file_temp_path, lists, files, evs) ==
    IF IsNone(file_temp_path)
    THEN [err |-> "TypeError", fs |-> files, lists |-> lists, events |-> evs]
    ELSE [err |-> "none",
          fs |-> AppendRows(files, Val(file_temp_path), zip(lists)),
          lists |-> ClearLists(lists),
          events |-> Append(evs, WriteEvent(Val(file_temp_path), zip(lists)))]

(***************************************************************************)
(* AyxPlugin: the controller's callbacks.                                  *)
(***************************************************************************)
NoSinkChange == UNCHANGED <<record_info_in, field_lists, counter, received,
                            lifecycle, nInit, nDeviations, unflushed>>

MissingConnection == Message("error", xmsg(<<"Missing Incoming Connection">>))

RanWithoutInput == \E i \in 1..Len(events) : events[i] = MissingConnection

\* pi_init.  The engine configures the tool before it connects it.
pi_init(str_xml) ==
    /\ err = "none"
    /\ lastCall' = "pi_init"
    /\ ~single_input
    /\ LET root == ET_fromstring(str_xml)
       IN  IF IsNone(root)
           THEN /\ err' = "ParseError"
                /\ ret' = "raised"
                /\ UNCHANGED <<str_file_path, events, configured>>
           ELSE LET node == find(Val(root), "fileOutputPath")
                IN  IF IsNone(node)
                    THEN /\ events' = Append(events, Message("error",
                                  xmsg(<<"Invalid XML: ">> \o str_xml.raw)))
                         /\ err' = "AttributeError"
                         /\ ret' = "raised"
                         /\ UNCHANGED <<str_file_path, configured>>
                    ELSE /\ str_file_path' = Val(node).text
                         /\ configured' = TRUE
                         /\ ret' = "None"
                         /\ UNCHANGED <<events, err>>
    /\ progress' = None
    /\ UNCHANGED <<single_input, fs>>
    /\ NoSinkChange

\* pi_add_incoming_connection together with IncomingInterface.__init__.
\* The tool has one input anchor, and the engine connects it once, after it
\* has configured the tool.
pi_add_incoming_connection ==
    /\ err = "none"
    /\ lastCall' = "pi_add_incoming_connection"
    /\ configured
    /\ ~single_input
    /\ ~RanWithoutInput
    /\ single_input' = TRUE
    /\ record_info_in' = None
    /\ field_lists' = << >>
    /\ counter' = 0
    /\ ret' = "IncomingInterface"
    /\ progress' = None
    /\ UNCHANGED <<str_file_path, fs, events, err, received, lifecycle, nInit,
                   nDeviations, configured, unflushed>>

pi_add_outgoing_connection ==
    /\ err = "none"
    /\ lastCall' = "pi_add_outgoing_connection"
    /\ ret' = "True"
    /\ progress' = None
    /\ UNCHANGED <<str_file_path, single_input, fs, events, err, configured>>
    /\ NoSinkChange

\* A slip of the return value: the missing connection is reported as success.
pi_push_all_records_ReturnsTrue ==
    /\ err = "none"
    /\ lastCall' = "pi_push_all_records"
    /\ configured
    /\ ~single_input
    /\ ~RanWithoutInput
    /\ events' = Append(events, MissingConnection)
    /\ ret' = "True"
    /\ progress' = None
    /\ UNCHANGED <<str_file_path, single_input, fs, err, configured>>
    /\ NoSinkChange

\* pi_push_all_records: the engine calls it for a tool without an incoming
\* connection.
pi_push_all_records ==
    /\ err = "none"
    /\ lastCall' = "pi_push_all_records"
    /\ configured
    /\ ~single_input
    /\ ~RanWithoutInput
    /\ events' = Append(events, MissingConnection)
    /\ ret' = "False"
    /\ progress' = None
    /\ UNCHANGED <<str_file_path, single_input, fs, err, configured>>
    /\ NoSinkChange

pi_close ==
    /\ err = "none"
    /\ lastCall' = "pi_close"
    /\ ret' = "None"
    /\ progress' = None
    /\ UNCHANGED <<str_file_path, single_input, fs, events, err, configured>>
    /\ NoSinkChange

(***************************************************************************)
(* IncomingInterface: the record sink's callbacks.                         *)
(***************************************************************************)
special_chars == { "/", ";", "?", "*", "\"", "<", ">", "|" }

MaxPathLength == 259

\* The four checks of ii_init, in the order of the code.
PathExists(path, files) == ~IsNone(path) /\ os_access(files, Val(path))

\* A slip of the comparison: a path of exactly 259 characters is refused.
PathTooLong_AtLimit(path) == ~IsNone(path) /\ Len(Val(path)) >= MaxPathLength

PathTooLong(path) == ~IsNone(path) /\ Len(Val(path)) > MaxPathLength

PathHasSpecialChars(path) ==
    ~IsNone(path) /\ \E i \in 1..Len(Val(path)) : Val(path)[i] \in special_chars

PathBlank(path) == IsNone(path) \/ Len(Val(path)) = 0

ExistsMessage(path) ==
    Message("error", xmsg(<<"Error: ">> \o Val(path)
                 \o <<" already exists. Please enter a different path.">>))

TooLongMessage == Message("error", xmsg(<<"Maximum path length is 259">>))

SpecialCharsMessage ==
    Message("error",
            xmsg(<<"These characters are not allowed in the filename: /;?*\"<>|">>))

BlankMessage == Message("error", xmsg(<<"Enter a filename">>))

ValidationMessages(path, files) ==
    (IF PathExists(path, files) THEN <<ExistsMessage(path)>> ELSE << >>)
    \o (IF PathTooLong(path) THEN <<TooLongMessage>> ELSE << >>)
    \o (IF PathHasSpecialChars(path) THEN <<SpecialCharsMessage>> ELSE << >>)
    \o (IF PathBlank(path) THEN <<BlankMessage>> ELSE << >>)

\* for field in range(num_fields): self.field_lists.append([name])
SeedLists(lists, schema) ==
    lists \o [f \in 1..Len(schema) |-> <<schema[f]>>]

\* The lifecycle by the calls made: it only moves forward.
Deviates(op) ==
    IF op = "ii_init" THEN lifecycle # "uninitialized"
    ELSE lifecycle # "accumulating"

CountDeviation(op) ==
    /\ Deviates(op) => nDeviations < MaxDeviations
    /\ nDeviations' = IF Deviates(op) THEN nDeviations + 1 ELSE nDeviations

ii_init(schema) ==
    /\ err = "none"
    /\ lastCall' = "ii_init"
    /\ single_input
    /\ CountDeviation("ii_init")
    /\ nInit' = nInit + 1
    /\ lifecycle' = IF lifecycle = "uninitialized" THEN "accumulating"
                    ELSE lifecycle
    /\ record_info_in' = Some(schema)
    /\ field_lists' = SeedLists(field_lists, schema)
    /\ events' = events \o ValidationMessages(str_file_path, fs)
    /\ ret' = "True"
    /\ progress' = None
    /\ UNCHANGED <<str_file_path, single_input, counter, fs, err, received,
                   configured, unflushed>>

\* get_as_string of every field, None replaced by ''; a list the sink does
\* not have raises IndexError after the lists before it were extended.
AppendRecord(lists, num_fields, in_record) ==
    [f \in 1..Len(lists) |->
        IF f <= num_fields
        THEN Append(lists[f], IF IsNone(in_record[f]) THEN ""
                              ELSE Val(in_record[f]))
        ELSE lists[f]]

\* if self.counter == 1000000
\* A slip of the comparison: the flush comes one record late.
ChunkMarkMet_Late(n) == n = ChunkSize + 1

ChunkMarkMet(n) == n = ChunkSize

ii_push_record(in_record) ==
    /\ err = "none"
    /\ lastCall' = "ii_push_record"
    /\ single_input
    /\ Len(received) < MaxPush
    /\ CountDeviation("ii_push_record")
    /\ received' = Append(received, in_record)
    /\ IF IsNone(record_info_in)
       THEN \* None.num_fields
            /\ counter' = counter + 1
            /\ err' = "AttributeError"
            /\ ret' = "raised"
            /\ unflushed' = unflushed + 1
            /\ UNCHANGED <<field_lists, fs, events>>
       ELSE LET num_fields == Len(Val(record_info_in))
                lists == AppendRecord(field_lists, num_fields, in_record)
                w == write_lists_to_csv(str_file_path, lists, fs, events)
            IN  IF num_fields > Len(field_lists)
                THEN /\ counter' = counter + 1
                     /\ field_lists' = lists
                     /\ err' = "IndexError"
                     /\ ret' = "raised"
                     /\ unflushed' = unflushed + 1
                     /\ UNCHANGED <<fs, events>>
                ELSE IF ~ChunkMarkMet(counter + 1)
                THEN /\ counter' = counter + 1
                     /\ field_lists' = lists
                     /\ ret' = "True"
                     /\ unflushed' = unflushed + 1
                     /\ UNCHANGED <<fs, events, err>>
                ELSE IF w.err # "none"
                THEN /\ counter' = counter + 1
                     /\ field_lists' = lists
                     /\ err' = w.err
                     /\ ret' = "raised"
                     /\ unflushed' = unflushed + 1
                     /\ UNCHANGED <<fs, events>>
                ELSE /\ counter' = 0
                     /\ unflushed' = 0
                     /\ field_lists' = w.lists
                     /\ fs' = w.fs
                     /\ events' = w.events
                     /\ ret' = "True"
                     /\ UNCHANGED err
    /\ progress' = None
    /\ UNCHANGED <<str_file_path, single_input, record_info_in, lifecycle,
                   nInit, configured>>

ii_update_progress(d_percent) ==
    /\ err = "none"
    /\ lastCall' = "ii_update_progress"
    /\ single_input
    /\ progress' = Some(d_percent)
    /\ ret' = "None"
    /\ UNCHANGED <<str_file_path, single_input, fs, events, err, configured>>
    /\ NoSinkChange

\* if len(self.field_lists[0]) > 1
LastChunkPending(lists) == Len(lists[1]) > 1

CreatedMessage(path) ==
    Message("file_output",
            xmsg(Val(path) \o <<"|">> \o Val(path) \o <<" was created.">>))

ii_close ==
    /\ err = "none"
    /\ lastCall' = "ii_close"
    /\ single_input
    /\ CountDeviation("ii_close")
    /\ lifecycle' = "closed"
    /\ IF Len(field_lists) = 0
       THEN \* self.field_lists[0]
            /\ err' = "IndexError"
            /\ ret' = "raised"
            /\ UNCHANGED <<field_lists, fs, events, unflushed>>
       ELSE LET pending == LastChunkPending(field_lists)
                w == IF pending
                     THEN write_lists_to_csv(str_file_path, field_lists, fs,
                                             events)
                     ELSE [err |-> "none", fs |-> fs, lists |-> field_lists,
                           events |-> events]
            IN  IF w.err # "none"
                THEN /\ err' = w.err
                     /\ ret' = "raised"
                     /\ UNCHANGED <<field_lists, fs, events, unflushed>>
                ELSE /\ field_lists' = w.lists
                     /\ unflushed' = IF pending THEN 0 ELSE unflushed
                     /\ fs' = w.fs
                     /\ events' = IF ~IsNone(str_file_path)
                                  THEN Append(w.events,
                                              CreatedMessage(str_file_path))
                                  ELSE w.events
                     /\ ret' = "None"
                     /\ UNCHANGED err
    /\ progress' = None
    /\ UNCHANGED <<str_file_path, single_input, record_info_in, counter,
                   received, nInit, configured>>

(***************************************************************************)
(* The host calls the callbacks one at a time.                             *)
(***************************************************************************)
\* The records the host can push: those of the announced schema.
PushableRecords ==
    IF IsNone(record_info_in) THEN RecordsOf(<<"a">>, Len(received) + 1)
    ELSE RecordsOf(Val(record_info_in), Len(received) + 1)

Next ==
    \/ \E str_xml \in XmlPayloads : pi_init(str_xml)
    \/ pi_add_incoming_connection
    \/ pi_add_outgoing_connection
    \/ pi_push_all_records
    \/ pi_close
    \/ \E schema \in Schemas : ii_init(schema)
    \/ \E in_record \in PushableRecords : ii_push_record(in_record)
    \/ \E d_percent \in Percents : ii_update_progress(d_percent)
    \/ ii_close

Spec == Init /\ [][Next]_vars

(***************************************************************************)
(* Vocabulary of the properties.                                           *)
(***************************************************************************)
\* The calls so far are one stream: ii_init once, records, at most one close.
InProtocol == single_input /\ nInit = 1 /\ nDeviations = 0

PathSet == ~IsNone(str_file_path)

Schema == Val(record_info_in)

\* The rows of the file at the configured path, and those among them that
\* were on disk before the workflow ran.
FileRows ==
    IF PathSet /\ Val(str_file_path) \in DOMAIN fs
    THEN fs[Val(str_file_path)] ELSE << >>

PriorRows ==
    IF PathSet /\ Val(str_file_path) \in InitialFiles
    THEN OldContent ELSE << >>

\* What the stream has appended to the file.
StreamRows == SubSeq(FileRows, Len(PriorRows) + 1, Len(FileRows))

\* A record as the row of strings it is to become: None as ''.
RowOf(in_record) ==
    [f \in 1..Len(in_record) |->
        IF IsNone(in_record[f]) THEN "" ELSE Val(in_record[f])]

ReceivedRows == [k \in 1..Len(received) |-> RowOf(received[k])]

WriteIndexes == { i \in 1..Len(events) : events[i].kind = "write" }

NumFlushes == Cardinality(WriteIndexes)

DataRowsWritten ==
    Cardinality({ k \in 1..Len(StreamRows) : StreamRows[k] # Schema })

\* A stream that ran from ii_init to the return of ii_close.
StreamCompleted == InProtocol /\ lifecycle = "closed" /\ err = "none"

(***************************************************************************)
(* C1.  For every stream of N records written to a configured path, the    *)
(* file holds N data rows after ii_close (the header row not counted).     *)
(* The code loses the last record when N is one more than a multiple of    *)
(* the chunk mark.                                                         *)
(***************************************************************************)
C1_RowsWrittenEqualRowsReceived ==
    (StreamCompleted /\ PathSet) => DataRowsWritten = Len(received)

(***************************************************************************)
(* C2.  Round trip: after ii_close the stream's part of the file is the    *)
(* header row (the field names in order) followed by the N pushed records  *)
(* in order, None written as the empty string.  The code writes nothing    *)
(* for N = 0 and drops the last record for N = chunk mark + 1.             *)
(***************************************************************************)
C2_FileIsHeaderThenRows ==
    (StreamCompleted /\ PathSet /\ Len(Schema) >= 1)
        => StreamRows = <<Schema>> \o ReceivedRows

(***************************************************************************)
(* C3.  While a stream is accumulating, floor(N / chunk mark) flushes have *)
(* occurred after N pushes, the counter is N mod chunk mark and no push    *)
(* has failed.  With an unset path the push that meets the chunk mark      *)
(* raises TypeError.                                                       *)
(***************************************************************************)
C3_FlushEveryChunk ==
    (InProtocol /\ lifecycle = "accumulating")
        => /\ err = "none"
           /\ NumFlushes = Len(received) \div ChunkSize
           /\ counter = Len(received) % ChunkSize

(***************************************************************************)
(* C4.  An ii_close that returns has flushed if and only if records were   *)
(* received since the last flush.  The code skips the flush when exactly   *)
(* one record follows a chunk flush.                                       *)
(***************************************************************************)
C4_FinalFlushIffUnflushed ==
    [][(InProtocol /\ lifecycle = "accumulating" /\ lifecycle' = "closed"
            /\ err' = "none")
        => ((NumFlushes' = NumFlushes + 1) <=> (unflushed > 0))]_vars

(***************************************************************************)
(* C5.  A completed stream with at least one field has written its header  *)
(* row exactly once, as its first row.  The code writes no header when the *)
(* stream has no records.                                                  *)
(***************************************************************************)
HeaderIndexes == { k \in 1..Len(StreamRows) : StreamRows[k] = Schema }

C5_HeaderExactlyOnce ==
    (StreamCompleted /\ PathSet /\ Len(Schema) >= 1) => HeaderIndexes = {1}

(***************************************************************************)
(* C6.  ii_init runs its four path checks independently: each error is     *)
(* emitted exactly when its own condition holds (the path exists on disk;  *)
(* it is longer than 259; it contains one of / ; ? * " < > |; it is empty  *)
(* or unset), so a path meeting several conditions gets one error for      *)
(* each and a path meeting none gets no error.                             *)
(***************************************************************************)
Bit(b) == IF b THEN 1 ELSE 0

EmittedBy(evs, evs2, m) ==
    Cardinality({ i \in (Len(evs) + 1)..Len(evs2) : evs2[i] = m })

C6_ValidationChecksIndependent ==
    [][nInit' = nInit + 1 =>
        LET exists == PathSet /\ Val(str_file_path) \in DOMAIN fs
            tooLong == PathSet /\ Len(Val(str_file_path)) > 259
            special == PathSet /\ \E i \in 1..Len(Val(str_file_path)) :
                          Val(str_file_path)[i]
                              \in {"/", ";", "?", "*", "\"", "<", ">", "|"}
            blank == ~PathSet \/ Val(str_file_path) = << >>
        IN  /\ PathSet => EmittedBy(events, events',
                                    ExistsMessage(str_file_path)) = Bit(exists)
            /\ EmittedBy(events, events', TooLongMessage) = Bit(tooLong)
            /\ EmittedBy(events, events', SpecialCharsMessage) = Bit(special)
            /\ EmittedBy(events, events', BlankMessage) = Bit(blank)
            /\ Len(events') = Len(events) + Bit(exists) + Bit(tooLong)
                                  + Bit(special) + Bit(blank)
    ]_vars

\* ii_init has reported a path that is both too long and ill-formed, and
\* nothing else.
C6_Witness ==
    /\ nInit = 1
    /\ PathSet
    /\ Len(Val(str_file_path)) = 260
    /\ events = <<TooLongMessage, SpecialCharsMessage>>

(***************************************************************************)
(* C7.  Path validation never blocks: whatever ii_init reported, the       *)
(* stream that follows is never aborted, its records are accepted and its  *)
(* flushes are carried out.  With an unset path the first flush raises     *)
(* TypeError.                                                              *)
(***************************************************************************)
C7_ValidationNeverBlocks ==
    (InProtocol /\ Len(Schema) >= 1) => err = "none"

(***************************************************************************)
(* C8.  The ii_close of a stream emits the completion notice exactly once, *)
(* as its last effect (after the final flush), when a path is configured,  *)
(* and emits no notice otherwise.  For a schema without fields ii_close    *)
(* raises IndexError before the notice.                                    *)
(***************************************************************************)
C8_NoticeOnceAfterFlush ==
    [][(InProtocol /\ lifecycle = "accumulating" /\ lifecycle' = "closed")
        => IF PathSet
           THEN /\ EmittedBy(events, events',
                             CreatedMessage(str_file_path)) = 1
                /\ events'[Len(events')] = CreatedMessage(str_file_path)
           ELSE \A i \in (Len(events) + 1)..Len(events') :
                    events'[i].kind # "message"
    ]_vars

(***************************************************************************)
(* C9.  A pi_init that fails on a malformed payload has reported an error  *)
(* message to the host and left the stored path as it was.  For text that  *)
(* is not XML the code raises without a message.                           *)
(***************************************************************************)
C9_MalformedConfigReported ==
    [][(~single_input /\ err = "none" /\ err' # "none")
        => /\ Len(events') = Len(events) + 1
           /\ events'[Len(events')].kind = "message"
           /\ events'[Len(events')].type = "error"
           /\ str_file_path' = str_file_path
    ]_vars

(***************************************************************************)
(* C10.  Once ii_close has run, no later call adds rows to the buffers,    *)
(* changes the counter or writes to the file.  The sink keeps no closed    *)
(* state: a later ii_push_record is accumulated as before.                 *)
(***************************************************************************)
C10_ClosedIsFinal ==
    [][(lifecycle = "closed" /\ nInit' = nInit)
        => (field_lists' = field_lists /\ counter' = counter /\ fs' = fs)
    ]_vars

(***************************************************************************)
(* C11.  Every flush appends: in every step each file keeps what it held   *)
(* (content from before the workflow included) as a prefix of what it      *)
(* holds afterwards, and what is added is exactly the rows of the step's   *)
(* flush, so the chunks lie in the file in the order they were flushed.    *)
(***************************************************************************)
\* The rows the step's file appends put at the end of path p.
RowsFlushedTo(evs, evs2, p) ==
    LET idx == { i \in (Len(evs) + 1)..Len(evs2) :
                    evs2[i].kind = "write" /\ evs2[i].path = p }
    IN  IF idx = {} THEN << >> ELSE evs2[CHOOSE i \in idx : TRUE].rows

C11_FlushAppends ==
    [][/\ DOMAIN fs \subseteq DOMAIN fs'
       /\ \A p \in DOMAIN fs' :
             fs'[p] = (IF p \in DOMAIN fs THEN fs[p] ELSE << >>)
                          \o RowsFlushedTo(events, events', p)
    ]_vars

\* A file that was on disk before the stream holds its old rows, then the
\* chunk flushed at the chunk mark, then the chunk flushed by ii_close.
C11_Witness ==
    /\ StreamCompleted
    /\ NumFlushes = 2
    /\ PriorRows = OldContent
    /\ Len(FileRows) = Len(OldContent) + 1 + Len(received)
    /\ SubSeq(FileRows, 1, Len(OldContent)) = OldContent

(***************************************************************************)
(* C12.  While a stream is accumulating, every column buffer has the same  *)
(* length: the number of records received since the last flush plus one,   *)
(* the header entry.  After a flush the code's buffers no longer hold the  *)
(* header entry.                                                           *)
(***************************************************************************)
C12_BuffersHoldHeaderAndRows ==
    (InProtocol /\ lifecycle = "accumulating" /\ err = "none")
        => \A f \in 1..Len(field_lists) : Len(field_lists[f]) = unflushed + 1

(***************************************************************************)
(* C13.  The counter equals the number of records accumulated since the    *)
(* last flush, and is zero right after a flush by ii_push_record or by     *)
(* ii_close.  ii_close flushes without resetting the counter.              *)
(***************************************************************************)
C13_CounterIsRowsSinceFlush ==
    (InProtocol /\ err = "none") => counter = unflushed

(***************************************************************************)
(* C14.  Memory is bounded by the chunk: no column buffer ever holds more  *)
(* data rows than the chunk mark, after a callback has returned it holds   *)
(* fewer, and no flush writes more data rows than the chunk mark.          *)
(***************************************************************************)
FieldNames == UNION { { schema[f] : f \in 1..Len(schema) } : schema \in Schemas }

\* The entries of a buffer that are values of records, not field names.
DataEntries(list) ==
    Cardinality({ k \in 1..Len(list) : list[k] \notin FieldNames })

\* The rows of a flush that hold values of records.
DataRows(rows) ==
    Cardinality({ k \in 1..Len(rows) :
                    \E f \in 1..Len(rows[k]) : rows[k][f] \notin FieldNames })

C14_BuffersBoundedByChunk ==
    /\ \A f \in 1..Len(field_lists) :
          /\ DataEntries(field_lists[f]) <= ChunkSize
          /\ err = "none" => DataEntries(field_lists[f]) < ChunkSize
    /\ \A i \in WriteIndexes : DataRows(events[i].rows) <= ChunkSize

\* A full chunk has been flushed and the buffers are one record short of
\* the next one.
C14_Witness ==
    /\ InProtocol
    /\ err = "none"
    /\ \E i \in WriteIndexes : DataRows(events[i].rows) = ChunkSize
    /\ Len(field_lists) >= 1
    /\ \A f \in 1..Len(field_lists) :
          DataEntries(field_lists[f]) = ChunkSize - 1

(***************************************************************************)
(* C15.  After every ii_init, a repeated one included, the sink has        *)
(* exactly one buffer per field of the announced schema, in field order,   *)
(* each holding only the field's name.  The code appends the new buffers   *)
(* to those of the earlier ii_init.                                        *)
(***************************************************************************)
C15_OneBufferPerField ==
    [][nInit' = nInit + 1
        => field_lists' = [f \in 1..Len(Val(record_info_in')) |->
                              <<Val(record_info_in')[f]>>]
    ]_vars

(***************************************************************************)
(* C16.  ii_update_progress, pi_close, pi_add_outgoing_connection and      *)
(* pi_push_all_records leave the configured path, the column buffers, the  *)
(* counter and the files as they are; pi_add_outgoing_connection returns   *)
(* True, and pi_push_all_records reports an error and returns False.       *)
(***************************************************************************)
PassThroughCalls ==
    { "ii_update_progress", "pi_close", "pi_add_outgoing_connection",
      "pi_push_all_records" }

C16_PassThroughCallsKeepState ==
    [][/\ lastCall' \in PassThroughCalls
          => /\ UNCHANGED <<str_file_path, field_lists, counter, fs>>
             /\ err' = "none"
       /\ lastCall' = "pi_add_outgoing_connection" => ret' = "True"
       /\ lastCall' = "pi_push_all_records"
          => /\ ret' = "False"
             /\ Len(events') = Len(events) + 1
             /\ events'[Len(events')].kind = "message"
             /\ events'[Len(events')].type = "error"
    ]_vars

\* Progress was reported in the middle of a stream that has flushed a chunk
\* and holds further records.
C16_Witness ==
    /\ lastCall = "ii_update_progress"
    /\ InProtocol
    /\ PathSet
    /\ NumFlushes = 1
    /\ unflushed > 0
    /\ counter = unflushed
    /\ Len(FileRows) > Len(PriorRows)

(***************************************************************************)
(* C17.  Whenever a stream's completion notice has been emitted, a flush   *)
(* of the stream has written to the path: the file exists and the stream's *)
(* part of it begins with the header row.  The code emits the notice for a *)
(* stream without records although it has written nothing.                 *)
(***************************************************************************)
NoticeEmitted ==
    PathSet /\ \E i \in 1..Len(events) : events[i] = CreatedMessage(str_file_path)

C17_NoticeImpliesFileWritten ==
    (InProtocol /\ NoticeEmitted)
        => /\ NumFlushes >= 1
           /\ Val(str_file_path) \in DOMAIN fs
           /\ Len(StreamRows) >= 1
           /\ StreamRows[1] = Schema

(***************************************************************************)
(* C18.  ii_close returns without an exception when the schema has no      *)
(* fields, when no ii_init has run, and when no record was received.  The  *)
(* code raises IndexError on field_lists[0] when there is no buffer.       *)
(***************************************************************************)
C18_CloseNeverRaises ==
    [][(lastCall' = "ii_close"
            /\ (nInit = 0 \/ received = << >> \/ Len(Schema) = 0))
        => err' = "none"
    ]_vars

====
